---- MODULE Spec2Model ----
(***************************************************************************)
(* Model of gitui's runtime driver (src/src/main.rs): process startup,     *)
(* terminal setup and teardown, the panic hook, the per-session event loop *)
(* of run_app with its six receive endpoints, select_event, and the outer  *)
(* loop of main that re-targets a session to a submodule.                  *)
(*                                                                         *)
(* The App object, Input, Spinner and RepoWatcher are external to main.rs: *)
(* their calls are modelled by their outcome (Ok, Err, panic) and by the   *)
(* values main.rs reads back (is_quit, quit_state, any_work_pending,       *)
(* requires_redraw), chosen nondeterministically.                          *)
(***************************************************************************)
EXTENDS Integers, Sequences, FiniteSets, TLC

\* ------------------------------------------------------------------ bounds
\* values a producer thread may still queue, over the whole process
MaxProduced == 2
\* capacity the model gives to the unbounded channels (input, git, app, watcher)
MaxQueue == 1
\* re-target requests (QuitState::OpenSubmodule) the App may make per process
MaxRetargets == 1

\* ------------------------------------------------------------------ values
Home == <<"home", "alice">>
\* resource locators (RepoPath), as canonical absolute paths split in components
Locators == { <<"home", "alice", "proj">>, <<"srv", "proj">> }
Themes == {"theme_a"}
KeyConfigDefault == "keys_default"
KeyConfigs == {"keys_file"}

VARIABLES
    pc,           \* position of the main thread in main / run_app
    outcome,      \* "running", or how the process ended: "ok", "err", "panic"
    term,         \* the terminal device: raw mode, alternate screen, title, cursor
    guard,        \* defer! armed, panic::set_hook calls, global thread pool
    shut,         \* executions of shutdown_terminal and of its two steps
    cfg,          \* main's locals: repo_path, theme, key_config, updater
    input,        \* the Input created once in main, and its channel
    rx,           \* run_app's locals rx_git, rx_app, rx_ticker, rx_watcher, spinner_ticker
    app,          \* run_app's local app (the App instance)
    loc,          \* run_app's loop locals: first_update, event, index (with the session
                  \* the received value was queued in, and what the App handler
                  \* called for the event returned)
    sessions,     \* history: one record per invocation of run_app
    quits,        \* history: the quit_state each run_app call returned with Ok
    iter,         \* history: the calls made in the current loop iteration, in order
    calls,        \* history: app.update / app.event / app.update_async calls of this session
    produced      \* history: number of values queued by producer threads so far

vars == << pc, outcome, term, guard, shut, cfg, input, rx, app, loc,
           sessions, quits, iter, calls, produced >>

\* ----------------------------------------------------------------- helpers
IsPrefix(p, s) == Len(p) <= Len(s) /\ SubSeq(s, 1, Len(p)) = p

\* start_terminal: the path shown in the title, home prefix collapsed to "~"
TitlePath(path) ==
    IF IsPrefix(Home, path)
    THEN <<"~">> \o SubSeq(path, Len(Home) + 1, Len(path))
    ELSE path

NoTitle == <<>>
NoQuit == [kind |-> "None", p |-> <<>>]
Close == [kind |-> "Close", p |-> <<>>]
OpenSubmodule(p) == [kind |-> "OpenSubmodule", p |-> p]

NoApp == [id |-> 0, repo |-> <<>>, theme |-> "-", key_config |-> "-"]

NoEvent == [tag |-> "-", v |-> "-"]
\* QueueEvent
Tick == [tag |-> "Tick", v |-> "-"]
Notify == [tag |-> "Notify", v |-> "-"]
SpinnerUpdate == [tag |-> "SpinnerUpdate", v |-> "-"]
AsyncEvent(n) == [tag |-> "AsyncEvent", v |-> n]
InputEventOf(e) == [tag |-> "InputEvent", v |-> e]

\* InputEvent values: a key press, or State(InputState::Polling)
InputValues == {"Key", "StatePolling"}
\* AsyncGitNotification values
GitValues == {"FinishUnchanged", "Status"}
\* AsyncAppNotification values
AppValues == {"SyntaxHighlighting"}
\* AsyncNotification::Git(e), AsyncNotification::App(e)
AsyncGit(e) == <<"Git", e>>
AsyncApp(e) == <<"App", e>>

\* a queued value, with the session in which it was queued
Msg(v, s) == [v |-> v, born |-> s]

\* no Input yet, or no more
NoInput == [live |-> FALSE, chan |-> <<>>]

\* run_app's loop locals outside run_app
NoLoc == [first_update |-> FALSE, event |-> NoEvent, index |-> -1, born |-> 0,
          result |-> "-"]

\* no App handler called yet in this session
NoCalls == [c \in {"app.event", "app.update", "app.update_async"} |-> 0]

\* number of the current session: run_app invocations so far
Session == Len(sessions)

\* the main thread is inside run_app's loop (channels and App exist)
InLoop == pc \in {"loop", "dispatch", "continue", "draw", "spinner_state", "quit_check"}

\* --------------------------------------------------------------- terminal
\* setup_terminal: r is "ok", or the step that fails
SetupTerminal(t, r) ==
    IF r = "raw_fails"
    THEN [term |-> t, ok |-> FALSE]
    ELSE LET t1 == [t EXCEPT !.raw = TRUE, !.touched = TRUE]
         IN  IF r = "screen_fails"
             THEN [term |-> t1, ok |-> FALSE]
             ELSE [term |-> [t1 EXCEPT !.alt = TRUE], ok |-> TRUE]

\* shutdown_terminal, stopping at the first failing step
ShutdownTerminal_stops(t, s, leave_ok, raw_ok) ==
    LET t1 == IF leave_ok THEN [t EXCEPT !.alt = FALSE] ELSE t
    IN  IF ~leave_ok
        THEN [term |-> t1,
              shut |-> [s EXCEPT !.calls = @ + 1, !.leave = @ + 1,
                                 !.leave_failed = @ + 1, !.logged = @ + 1]]
        ELSE [term |-> IF raw_ok THEN [t1 EXCEPT !.raw = FALSE] ELSE t1,
              shut |-> [s EXCEPT !.calls = @ + 1, !.leave = @ + 1, !.raw = @ + 1,
                                 !.logged = @ + (IF raw_ok THEN 0 ELSE 1)]]

\* shutdown_terminal: leave the alternate screen, then disable raw mode;
\* a failing step is logged and the function returns ()
ShutdownTerminal(t, s, leave_ok, raw_ok) ==
    LET t1 == IF leave_ok THEN [t EXCEPT !.alt = FALSE] ELSE t
        t2 == IF raw_ok THEN [t1 EXCEPT !.raw = FALSE] ELSE t1
    IN  [term |-> t2,
         shut |-> [calls |-> s.calls + 1,
                   leave |-> s.leave + 1,
                   leave_failed |-> s.leave_failed + (IF leave_ok THEN 0 ELSE 1),
                   raw |-> s.raw + 1,
                   logged |-> s.logged + (IF leave_ok THEN 0 ELSE 1)
                                       + (IF raw_ok THEN 0 ELSE 1)]]

\* --------------------------------------------------------------- channels
NoChannels == [git |-> <<>>, app |-> <<>>, ticker |-> <<>>, watcher |-> <<>>,
               spinner |-> <<>>, ticker_kind |-> "-", watcher_kind |-> "-"]

\* run_app keeping the endpoints of the previous session
NewSessionChannels_reused(prev, updater) ==
    [prev EXCEPT !.ticker_kind = IF updater = "Ticker" THEN "tick" ELSE "never",
                 !.watcher_kind = IF updater = "Ticker" THEN "never" ELSE "watcher"]

\* run_app with both update sources live
NewSessionChannels_both(prev, updater) ==
    [NoChannels EXCEPT !.ticker_kind = "tick", !.watcher_kind = "watcher"]

\* run_app: unbounded() twice, (never(), watcher) or (tick(), never()), tick()
NewSessionChannels(prev, updater) ==
    [git |-> <<>>, app |-> <<>>, ticker |-> <<>>, watcher |-> <<>>, spinner |-> <<>>,
     ticker_kind |-> IF updater = "Ticker" THEN "tick" ELSE "never",
     watcher_kind |-> IF updater = "NotifyWatcher" THEN "watcher" ELSE "never"]

\* the six endpoints in the order select_event registers them
Endpoint(i) ==
    CASE i = 0 -> input.chan
      [] i = 1 -> rx.git
      [] i = 2 -> rx.app
      [] i = 3 -> rx.ticker
      [] i = 4 -> rx.watcher
      [] i = 5 -> rx.spinner

Ready(i) == Len(Endpoint(i)) > 0

\* select_event taking the periodic timer for the animation clock
SelectEvent_timer_as_spinner(index, m) ==
    CASE index = 0 -> InputEventOf(m.v)
      [] index = 1 -> AsyncEvent(AsyncGit(m.v))
      [] index = 2 -> AsyncEvent(AsyncApp(m.v))
      [] index = 3 -> SpinnerUpdate
      [] index = 4 -> Notify
      [] index = 5 -> SpinnerUpdate

\* select_event: the event returned for a value m received on endpoint index
SelectEvent(index, m) ==
    CASE index = 0 -> InputEventOf(m.v)
      [] index = 1 -> AsyncEvent(AsyncGit(m.v))
      [] index = 2 -> AsyncEvent(AsyncApp(m.v))
      [] index = 3 -> Notify
      [] index = 4 -> Notify
      [] index = 5 -> SpinnerUpdate

\* -------------------------------------------------------------------- App
\* App::new(repo, tx_git, tx_app, input, theme, key_config)
AppNew(id, repo, theme, key_config) ==
    [id |-> id, repo |-> repo, theme |-> theme, key_config |-> key_config]

\* re-target requests honoured so far
Retargets == Cardinality({ i \in 1..Len(quits) : quits[i].kind = "OpenSubmodule" })

\* App instances constructed so far
AppsCreated == Cardinality({ i \in 1..Len(sessions) : sessions[i].app_id # 0 })

\* what app.is_quit() / app.quit_state() may report; a submodule is another
\* repository than the one the App was opened on
QuitChoices ==
    {NoQuit, Close} \cup
    (IF Retargets < MaxRetargets
     THEN { OpenSubmodule(p) : p \in Locators \ {app.repo} }
     ELSE {})

\* ------------------------------------------------------------------- Init
Init ==
    /\ pc = "main"
    /\ outcome = "running"
    /\ term = [raw |-> FALSE, alt |-> FALSE, title |-> NoTitle,
               cursor_hidden |-> FALSE, touched |-> FALSE]
    /\ guard = [defer |-> FALSE, hook |-> 0, pool |-> FALSE]
    /\ shut = [calls |-> 0, leave |-> 0, leave_failed |-> 0, raw |-> 0, logged |-> 0]
    /\ cfg = [repo_path |-> <<>>, notify_watcher |-> FALSE, theme |-> "-",
              key_config |-> "-", updater |-> "-"]
    /\ input = NoInput
    /\ rx = NoChannels
    /\ app = NoApp
    /\ loc = NoLoc
    /\ sessions = <<>>
    /\ quits = <<>>
    /\ iter = <<>>
    /\ calls = NoCalls
    /\ produced = 0

\* ------------------------------------------------------------------- main
\* process_cmdline()?; ensure_valid_path(&cliargs.repo_path)?
Main_cmdline ==
    /\ pc = "main"
    /\ \E parsed \in BOOLEAN, valid \in BOOLEAN, repo \in Locators, nw \in BOOLEAN :
        IF parsed /\ valid
        THEN /\ cfg' = [cfg EXCEPT !.repo_path = repo, !.notify_watcher = nw]
             /\ pc' = "config"
        ELSE /\ pc' = "ret_err"
             /\ UNCHANGED cfg
    /\ UNCHANGED << outcome, term, guard, shut, input, rx, app, loc,
                    sessions, quits, iter, calls, produced >>

\* KeyConfig::init() with unwrap_or_default; Theme::init
Main_config ==
    /\ pc = "config"
    /\ \E loaded \in BOOLEAN, k \in KeyConfigs, t \in Themes :
        cfg' = [cfg EXCEPT !.key_config = IF loaded THEN k ELSE KeyConfigDefault,
                           !.theme = t]
    /\ pc' = "setup_terminal"
    /\ UNCHANGED << outcome, term, guard, shut, input, rx, app, loc,
                    sessions, quits, iter, calls, produced >>

\* setup_terminal()?; defer! { shutdown_terminal(); }
Main_setup_terminal ==
    /\ pc = "setup_terminal"
    /\ \E r \in {"ok", "raw_fails", "screen_fails"} :
        LET res == SetupTerminal(term, r)
        IN  /\ term' = res.term
            /\ guard' = [guard EXCEPT !.defer = res.ok]
            /\ pc' = IF res.ok THEN "set_panic_handler" ELSE "ret_err"
    /\ UNCHANGED << outcome, shut, cfg, input, rx, app, loc,
                    sessions, quits, iter, calls, produced >>

\* set_panic_handler() with the failure of the thread pool ignored
Main_set_panic_handler_goes_on ==
    /\ pc = "set_panic_handler"
    /\ \E pool_ok \in BOOLEAN :
        /\ guard' = [guard EXCEPT !.hook = @ + 1, !.pool = pool_ok]
        /\ pc' = "start_terminal"
    /\ UNCHANGED << outcome, term, shut, cfg, input, rx, app, loc,
                    sessions, quits, iter, calls, produced >>

\* set_panic_handler()?: panic::set_hook, then the global rayon pool
Main_set_panic_handler ==
    /\ pc = "set_panic_handler"
    /\ \E pool_ok \in BOOLEAN :
        /\ guard' = [guard EXCEPT !.hook = @ + 1, !.pool = pool_ok]
        /\ pc' = IF pool_ok THEN "start_terminal" ELSE "ret_err"
    /\ UNCHANGED << outcome, term, shut, cfg, input, rx, app, loc,
                    sessions, quits, iter, calls, produced >>

\* start_terminal(io::stdout(), &repo_path)?
Main_start_terminal ==
    /\ pc = "start_terminal"
    /\ \E r \in {"ok", "path_fails", "terminal_fails"} :
        /\ term' = CASE r = "path_fails" -> term
                     [] r = "terminal_fails" ->
                            [term EXCEPT !.title = TitlePath(cfg.repo_path)]
                     [] r = "ok" ->
                            [term EXCEPT !.title = TitlePath(cfg.repo_path),
                                         !.cursor_hidden = TRUE]
        /\ pc' = IF r = "ok" THEN "input_new" ELSE "ret_err"
    /\ UNCHANGED << outcome, guard, shut, cfg, input, rx, app, loc,
                    sessions, quits, iter, calls, produced >>

\* the Updater chosen in main from cliargs.notify_watcher
UpdaterOf(notify_watcher) == IF notify_watcher THEN "NotifyWatcher" ELSE "Ticker"

\* Input::new(); let updater = ...
Main_input ==
    /\ pc = "input_new"
    /\ input' = [live |-> TRUE, chan |-> <<>>]
    /\ cfg' = [cfg EXCEPT !.updater = UpdaterOf(cfg.notify_watcher)]
    /\ pc' = "run_app"
    /\ UNCHANGED << outcome, term, guard, shut, rx, app, loc,
                    sessions, quits, iter, calls, produced >>

\* main's match on the quit_state run_app returned: stays, ignoring the new path
MainMatch_stays(q, repo_path) ==
    [repo_path |-> repo_path, again |-> q.kind = "OpenSubmodule"]

\* main's match on the quit_state run_app returned
MainMatch(q, repo_path) ==
    IF q.kind = "OpenSubmodule"
    THEN [repo_path |-> q.p, again |-> TRUE]
    ELSE [repo_path |-> repo_path, again |-> FALSE]

Main_match ==
    /\ pc = "match"
    /\ LET m == MainMatch(quits[Len(quits)], cfg.repo_path)
       IN  /\ cfg' = [cfg EXCEPT !.repo_path = m.repo_path]
           /\ pc' = IF m.again THEN "run_app" ELSE "ret_ok"
    /\ UNCHANGED << outcome, term, guard, shut, input, rx, app, loc,
                    sessions, quits, iter, calls, produced >>

\* main returns: the deferred shutdown_terminal runs if it was registered,
\* and every local of main and run_app is gone
Main_return ==
    /\ pc \in {"ret_ok", "ret_err"}
    /\ IF guard.defer
       THEN \E leave_ok \in BOOLEAN, raw_ok \in BOOLEAN :
              LET res == ShutdownTerminal(term, shut, leave_ok, raw_ok)
              IN  term' = res.term /\ shut' = res.shut
       ELSE UNCHANGED << term, shut >>
    /\ outcome' = IF pc = "ret_ok" THEN "ok" ELSE "err"
    /\ pc' = "done"
    /\ input' = NoInput
    /\ rx' = NoChannels
    /\ app' = NoApp
    /\ loc' = NoLoc
    /\ iter' = <<>>
    /\ calls' = NoCalls
    /\ UNCHANGED << guard, cfg, sessions, quits, produced >>

\* a hook that reports before it restores the terminal
HookCalls_report_first == <<"backtrace", "log::error", "eprintln", "shutdown_terminal">>

\* the calls of the panic hook, in order: Backtrace::new(), shutdown_terminal(),
\* log_eprintln! (log::error! and eprintln!)
HookCalls == <<"backtrace", "shutdown_terminal", "log::error", "eprintln">>

\* the panic hook runs
\* (the panicking thread never returns to run_app: its locals are not used again)
Panic_hook ==
    /\ pc = "panic"
    /\ IF guard.hook > 0
       THEN /\ \E leave_ok \in BOOLEAN, raw_ok \in BOOLEAN :
                 LET res == ShutdownTerminal(term, shut, leave_ok, raw_ok)
                 IN  term' = res.term /\ shut' = res.shut
            /\ iter' = iter \o HookCalls
       ELSE UNCHANGED << term, shut, iter >>
    /\ pc' = "unwind"
    /\ rx' = NoChannels
    /\ UNCHANGED << outcome, guard, cfg, input, app, loc, calls,
                    sessions, quits, produced >>

\* after the hook the panic unwinds main (the deferred shutdown_terminal runs)
\* or, in a build with panic = "abort", the process aborts at once
Panic_unwind ==
    /\ pc = "unwind"
    /\ \E unwinds \in BOOLEAN :
        IF unwinds /\ guard.defer
        THEN \E leave_ok \in BOOLEAN, raw_ok \in BOOLEAN :
               LET res == ShutdownTerminal(term, shut, leave_ok, raw_ok)
               IN  term' = res.term /\ shut' = res.shut
        ELSE UNCHANGED << term, shut >>
    /\ outcome' = "panic"
    /\ pc' = "done"
    /\ input' = NoInput
    /\ rx' = NoChannels
    /\ app' = NoApp
    /\ loc' = NoLoc
    /\ iter' = <<>>
    /\ calls' = NoCalls
    /\ UNCHANGED << guard, cfg, sessions, quits, produced >>

\* ---------------------------------------------------------------- run_app
\* a local of run_app: its value, or nothing once run_app has returned an
\* error through `?` and its locals are dropped (loc, iter and calls keep the
\* failed iteration until main returns)
Local(failed, value, nothing) == IF failed THEN nothing ELSE value

\* run_app up to the loop: channels, RepoWatcher, App::new, Spinner::default
RunApp_enter ==
    /\ pc = "run_app"
    /\ \E r \in {"ok", "app_fails"} \cup
               (IF cfg.updater = "NotifyWatcher" THEN {"watcher_fails"} ELSE {}) :
        /\ sessions' = Append(sessions,
                [repo |-> cfg.repo_path, theme |-> cfg.theme,
                 key_config |-> cfg.key_config, updater |-> cfg.updater,
                 app_id |-> IF r = "ok" THEN AppsCreated + 1 ELSE 0])
        /\ rx' = Local(r # "ok", NewSessionChannels(rx, cfg.updater), NoChannels)
        /\ app' = Local(r # "ok",
                        AppNew(AppsCreated + 1, cfg.repo_path, cfg.theme, cfg.key_config),
                        NoApp)
        /\ loc' = Local(r # "ok", [NoLoc EXCEPT !.first_update = TRUE], NoLoc)
        /\ pc' = IF r = "ok" THEN "loop" ELSE "ret_err"
    /\ iter' = <<>>
    /\ calls' = NoCalls
    /\ UNCHANGED << outcome, term, guard, shut, cfg, input, quits, produced >>

\* the event of the first iteration: QueueEvent::Notify
FirstEvent == Notify

\* first loop iteration: first_update = false; the event is synthesized
Loop_first ==
    /\ pc = "loop"
    /\ loc.first_update
    /\ loc' = [loc EXCEPT !.first_update = FALSE, !.event = FirstEvent,
                          !.index = -1, !.born = 0]
    /\ iter' = <<"first_update">>
    /\ pc' = "dispatch"
    /\ UNCHANGED << outcome, term, guard, shut, cfg, input, rx, app,
                    sessions, quits, calls, produced >>

\* the endpoints after one value was received from endpoint i
Received(i) ==
    [input |-> IF i = 0 THEN [input EXCEPT !.chan = Tail(@)] ELSE input,
     rx |-> CASE i = 0 -> rx
              [] i = 1 -> [rx EXCEPT !.git = Tail(@)]
              [] i = 2 -> [rx EXCEPT !.app = Tail(@)]
              [] i = 3 -> [rx EXCEPT !.ticker = Tail(@)]
              [] i = 4 -> [rx EXCEPT !.watcher = Tail(@)]
              [] i = 5 -> [rx EXCEPT !.spinner = Tail(@)]]

\* select_event selects the ready endpoint i and receives one value from it
SelectFrom(i) ==
    /\ pc = "loop"
    /\ ~loc.first_update
    /\ Ready(i)
    /\ LET m == Head(Endpoint(i))
       IN  loc' = [loc EXCEPT !.event = SelectEvent(i, m), !.index = i,
                              !.born = m.born]
    /\ input' = Received(i).input
    /\ rx' = Received(i).rx
    /\ iter' = <<"select_event">>
    /\ pc' = "dispatch"
    /\ UNCHANGED << outcome, term, guard, shut, cfg, app,
                    sessions, quits, calls, produced >>

\* later iterations: select_event blocks until an endpoint is ready, then
\* receives one value from one ready endpoint
Loop_select == \E i \in 0..5 : SelectFrom(i)

\* a loop that takes no event for a spinner update
IsSpinnerUpdate_never(ev) == FALSE

\* matches!(event, QueueEvent::SpinnerUpdate)
IsSpinnerUpdate(ev) == ev.tag = "SpinnerUpdate"

\* the SpinnerUpdate path: spinner.update(); spinner.draw(terminal)?
Loop_spinner ==
    /\ pc = "dispatch"
    /\ IsSpinnerUpdate(loc.event)
    /\ iter' = iter \o <<"spinner.update", "spinner.draw">>
    /\ \E drawn \in BOOLEAN :
        /\ pc' = IF drawn THEN "continue" ELSE "ret_err"
        /\ app' = Local(~drawn, app, NoApp)
        /\ rx' = Local(~drawn, rx, NoChannels)
        /\ loc' = loc
        /\ calls' = calls
    /\ UNCHANGED << outcome, term, guard, shut, cfg, input,
                    sessions, quits, produced >>

\* continue: the next iteration starts and the locals of this one are gone
Loop_continue ==
    /\ pc = "continue"
    /\ pc' = "loop"
    /\ iter' = <<>>
    /\ loc' = [NoLoc EXCEPT !.first_update = loc.first_update]
    /\ UNCHANGED << outcome, term, guard, shut, cfg, input, rx, app,
                    sessions, quits, calls, produced >>

\* a dispatch that hides the cursor for every input event
NeedsHideCursor_always(ev) == ev.tag = "InputEvent"

\* the input event that reports the external editor closed:
\* matches!(ev, InputEvent::State(InputState::Polling))
NeedsHideCursor(ev) == ev.tag = "InputEvent" /\ ev.v = "StatePolling"

\* the match on event without the FinishUnchanged filter
AppCallFor_unfiltered(ev) ==
    CASE ev.tag = "InputEvent" -> "app.event"
      [] ev.tag \in {"Tick", "Notify"} -> "app.update"
      [] ev.tag = "AsyncEvent" -> "app.update_async"
      [] ev.tag = "SpinnerUpdate" -> "unreachable"

\* the match on event with the first update passed to the input handler
AppCallFor_event(ev) ==
    CASE ev.tag \in {"InputEvent", "Notify"} -> "app.event"
      [] ev.tag = "Tick" -> "app.update"
      [] ev.tag = "AsyncEvent" ->
            IF ev.v = AsyncGit("FinishUnchanged") THEN "none" ELSE "app.update_async"
      [] ev.tag = "SpinnerUpdate" -> "unreachable"

\* the match on event with input events dropped
AppCallFor_input_dropped(ev) ==
    CASE ev.tag = "InputEvent" -> "none"
      [] ev.tag \in {"Tick", "Notify"} -> "app.update"
      [] ev.tag = "AsyncEvent" ->
            IF ev.v = AsyncGit("FinishUnchanged") THEN "none" ELSE "app.update_async"
      [] ev.tag = "SpinnerUpdate" -> "unreachable"

\* the match on event: the App handler the event is passed to, "none" when
\* the event is filtered, unreachable!() for SpinnerUpdate
AppCallFor(ev) ==
    CASE ev.tag = "InputEvent" -> "app.event"
      [] ev.tag \in {"Tick", "Notify"} -> "app.update"
      [] ev.tag = "AsyncEvent" ->
            IF ev.v = AsyncGit("FinishUnchanged") THEN "none" ELSE "app.update_async"
      [] ev.tag = "SpinnerUpdate" -> "unreachable"

\* app.event(ev)?, app.update()?, app.update_async(ev)? with the error logged
\* and the iteration going on
AfterHandler_goes_on(r) ==
    CASE r = "ok" -> "draw"
      [] r = "err" -> "draw"
      [] r = "panic" -> "panic"

\* where the main thread is after the App handler returned r: `?` returns an
\* error from run_app, a panic leaves through the panic hook
AfterHandler(r) ==
    CASE r = "ok" -> "draw"
      [] r = "err" -> "ret_err"
      [] r = "panic" -> "panic"

\* dispatch of a non-spinner event
Loop_dispatch ==
    /\ pc = "dispatch"
    /\ ~IsSpinnerUpdate(loc.event)
    /\ LET ev == loc.event
           hide == NeedsHideCursor(ev)
           call == AppCallFor(ev)
           pre == IF hide THEN <<"hide_cursor">> ELSE <<>>
       IN  \E hidden \in (IF hide THEN BOOLEAN ELSE {TRUE}) :
             IF ~hidden
             THEN /\ iter' = iter \o pre
                  /\ pc' = "ret_err"
                  /\ app' = NoApp /\ rx' = NoChannels /\ loc' = loc
                  /\ calls' = calls
                  /\ UNCHANGED term
             ELSE /\ term' = IF hide THEN [term EXCEPT !.cursor_hidden = TRUE] ELSE term
                  /\ CASE call = "none" ->
                            /\ iter' = iter \o pre
                            /\ pc' = "draw"
                            /\ UNCHANGED << app, rx, loc, calls >>
                       [] call = "unreachable" ->
                            /\ iter' = iter \o pre \o <<"unreachable">>
                            /\ pc' = "panic"
                            /\ UNCHANGED << app, rx, loc, calls >>
                       [] OTHER ->
                            /\ iter' = iter \o pre \o <<call>>
                            /\ \E r \in {"ok", "err", "panic"} :
                                 /\ pc' = AfterHandler(r)
                                 /\ app' = Local(r = "err", app, NoApp)
                                 /\ rx' = Local(r = "err", rx, NoChannels)
                                 /\ loc' = [loc EXCEPT !.result = r]
                                 /\ calls' = [calls EXCEPT ![call] = @ + 1]
    /\ UNCHANGED << outcome, guard, shut, cfg, input, sessions, quits, produced >>

\* draw that clears the screen after drawing the application
DrawCalls_clear_last(redraw, r) ==
    (CASE r = "clear_fails" -> <<>>
       [] r = "app_draw_fails" -> <<"draw", "log_error">>
       [] OTHER -> <<"draw">>)
    \o (IF redraw THEN <<"requires_redraw", "clear">> ELSE <<>>)

\* the calls of draw(terminal, &app), in order: terminal.clear() if
\* app.requires_redraw() (and nothing more if it fails), then terminal.draw
\* with app.draw in the closure, whose error is logged
DrawCalls(redraw, r) ==
    (IF redraw THEN <<"requires_redraw", "clear">> ELSE <<>>)
    \o (CASE r = "clear_fails" -> <<>>
          [] r = "app_draw_fails" -> <<"draw", "log_error">>
          [] OTHER -> <<"draw">>)

\* draw(terminal, &app)?
Loop_draw ==
    /\ pc = "draw"
    /\ \E redraw \in BOOLEAN :
       \E r \in {"ok", "app_draw_fails", "draw_fails"} \cup
                (IF redraw THEN {"clear_fails"} ELSE {}) :
        LET failed == r \in {"clear_fails", "draw_fails"}
        IN  /\ iter' = iter \o DrawCalls(redraw, r)
            /\ pc' = IF failed THEN "ret_err" ELSE "spinner_state"
            /\ app' = Local(failed, app, NoApp)
            /\ rx' = Local(failed, rx, NoChannels)
            /\ loc' = loc
            /\ calls' = calls
    /\ UNCHANGED << outcome, term, guard, shut, cfg, input,
                    sessions, quits, produced >>

\* spinner.set_state(app.any_work_pending()); spinner.draw(terminal)?
Loop_spinner_state ==
    /\ pc = "spinner_state"
    /\ \E pending \in BOOLEAN, drawn \in BOOLEAN :
        /\ iter' = iter \o << IF pending THEN "set_state(true)" ELSE "set_state(false)",
                              "spinner.draw" >>
        /\ pc' = IF drawn THEN "quit_check" ELSE "ret_err"
        /\ app' = Local(~drawn, app, NoApp)
        /\ rx' = Local(~drawn, rx, NoChannels)
        /\ loc' = loc
        /\ calls' = calls
    /\ UNCHANGED << outcome, term, guard, shut, cfg, input,
                    sessions, quits, produced >>

\* a loop that ends after every iteration
QuitBreaks_always(q) == TRUE

\* app.is_quit(): a quit state other than None is set
QuitBreaks(q) == q.kind # "None"

\* if app.is_quit() { break; } ... Ok(app.quit_state()); otherwise the next
\* iteration starts and the locals of this one are gone
Loop_quit ==
    /\ pc = "quit_check"
    /\ \E q \in QuitChoices :
        IF QuitBreaks(q)
        THEN /\ quits' = Append(quits, q)
             /\ app' = NoApp
             /\ pc' = "match"
        ELSE /\ pc' = "loop"
             /\ UNCHANGED << quits, app >>
    /\ iter' = <<>>
    /\ loc' = [NoLoc EXCEPT !.first_update = loc.first_update]
    /\ UNCHANGED << outcome, term, guard, shut, cfg, input, rx,
                    sessions, calls, produced >>

\* -------------------------------------------------------------- producers
\* The producer threads run concurrently with the main thread.  The main
\* thread reads the endpoints only in select_event, so a value queued while it
\* dispatches or draws is seen exactly as one queued when it is back at the
\* head of the loop: producer steps are interleaved there (and, for the input
\* thread, which outlives the sessions, before each call of run_app).
AtLoopHead == pc = "loop"

\* the session a value queued now belongs to (0 outside run_app's loop)
Born == IF InLoop THEN Session ELSE 0

\* the input thread started by Input::new queues an InputEvent
Input_thread ==
    /\ input.live
    /\ pc \in {"run_app", "loop"}
    /\ produced < MaxProduced
    /\ Len(input.chan) < MaxQueue
    /\ \E v \in InputValues :
        input' = [input EXCEPT !.chan = Append(@, Msg(v, Born))]
    /\ produced' = produced + 1
    /\ UNCHANGED << pc, outcome, term, guard, shut, cfg, rx, app, loc,
                    sessions, quits, iter, calls >>

\* a background git job of this session's App sends on tx_git
Git_notify ==
    /\ AtLoopHead
    /\ produced < MaxProduced
    /\ Len(rx.git) < MaxQueue
    /\ \E v \in GitValues : rx' = [rx EXCEPT !.git = Append(@, Msg(v, Born))]
    /\ produced' = produced + 1
    /\ UNCHANGED << pc, outcome, term, guard, shut, cfg, input, app, loc,
                    sessions, quits, iter, calls >>

\* this session's App sends on tx_app
App_notify ==
    /\ AtLoopHead
    /\ produced < MaxProduced
    /\ Len(rx.app) < MaxQueue
    /\ \E v \in AppValues : rx' = [rx EXCEPT !.app = Append(@, Msg(v, Born))]
    /\ produced' = produced + 1
    /\ UNCHANGED << pc, outcome, term, guard, shut, cfg, input, app, loc,
                    sessions, quits, iter, calls >>

\* tick(TICK_INTERVAL) becomes ready (a tick channel holds one message)
Ticker_fire ==
    /\ AtLoopHead
    /\ rx.ticker_kind = "tick"
    /\ produced < MaxProduced
    /\ Len(rx.ticker) < 1
    /\ rx' = [rx EXCEPT !.ticker = Append(@, Msg("Instant", Born))]
    /\ produced' = produced + 1
    /\ UNCHANGED << pc, outcome, term, guard, shut, cfg, input, app, loc,
                    sessions, quits, iter, calls >>

\* the RepoWatcher of this session reports a change
Watcher_notify ==
    /\ AtLoopHead
    /\ rx.watcher_kind = "watcher"
    /\ produced < MaxProduced
    /\ Len(rx.watcher) < MaxQueue
    /\ rx' = [rx EXCEPT !.watcher = Append(@, Msg("()", Born))]
    /\ produced' = produced + 1
    /\ UNCHANGED << pc, outcome, term, guard, shut, cfg, input, app, loc,
                    sessions, quits, iter, calls >>

\* tick(SPINNER_INTERVAL) becomes ready
Spinner_fire ==
    /\ AtLoopHead
    /\ Len(rx.spinner) < 1
    /\ rx' = [rx EXCEPT !.spinner = Append(@, Msg("Instant", Born))]
    /\ UNCHANGED << pc, outcome, term, guard, shut, cfg, input, app, loc,
                    sessions, quits, iter, calls, produced >>

\* ------------------------------------------------------------------- Spec
Next ==
    \/ Main_cmdline
    \/ Main_config
    \/ Main_setup_terminal
    \/ Main_set_panic_handler
    \/ Main_start_terminal
    \/ Main_input
    \/ Main_match
    \/ Main_return
    \/ Panic_hook
    \/ Panic_unwind
    \/ RunApp_enter
    \/ Loop_first
    \/ Loop_select
    \/ Loop_spinner
    \/ Loop_continue
    \/ Loop_dispatch
    \/ Loop_draw
    \/ Loop_spinner_state
    \/ Loop_quit
    \/ Input_thread
    \/ Git_notify
    \/ App_notify
    \/ Ticker_fire
    \/ Watcher_notify
    \/ Spinner_fire

Spec == Init /\ [][Next]_vars

\* --------------------------------------------------------------- fairness
\* the steps of the main thread
MainThread ==
    \/ Main_cmdline
    \/ Main_config
    \/ Main_setup_terminal
    \/ Main_set_panic_handler
    \/ Main_start_terminal
    \/ Main_input
    \/ Main_match
    \/ Main_return
    \/ Panic_hook
    \/ Panic_unwind
    \/ RunApp_enter
    \/ Loop_first
    \/ Loop_select
    \/ Loop_spinner
    \/ Loop_continue
    \/ Loop_dispatch
    \/ Loop_draw
    \/ Loop_spinner_state
    \/ Loop_quit

\* the main thread keeps running, and select_event's choice of the input
\* endpoint is weakly fair; the producers may stop or go on for ever
FairSpec == Spec /\ WF_vars(MainThread) /\ WF_vars(SelectFrom(0))

\* ------------------------------------------------- periodic polling alone
\* main is about to call run_app for the first time, started without the
\* watcher option (Updater::Ticker), every startup step having succeeded
InitTicker ==
    /\ pc = "run_app"
    /\ outcome = "running"
    /\ \E repo \in Locators, k \in KeyConfigs \cup {KeyConfigDefault}, t \in Themes :
        /\ cfg = [repo_path |-> repo, notify_watcher |-> FALSE, theme |-> t,
                  key_config |-> k, updater |-> UpdaterOf(FALSE)]
        /\ term = [raw |-> TRUE, alt |-> TRUE, title |-> TitlePath(repo),
                   cursor_hidden |-> TRUE, touched |-> TRUE]
    /\ guard = [defer |-> TRUE, hook |-> 1, pool |-> TRUE]
    /\ shut = [calls |-> 0, leave |-> 0, leave_failed |-> 0, raw |-> 0, logged |-> 0]
    /\ input = [live |-> TRUE, chan |-> <<>>]
    /\ rx = NoChannels
    /\ app = NoApp
    /\ loc = NoLoc
    /\ sessions = <<>>
    /\ quits = <<>>
    /\ iter = <<>>
    /\ calls = NoCalls
    /\ produced = 0

\* the program with no input, no git or app notification and no watcher: of
\* the producers only the periodic timer and the animation clock run, so
\* that produced counts the intervals of the periodic timer that have elapsed
NextTicker ==
    \/ RunApp_enter
    \/ Loop_first
    \/ Loop_select
    \/ Loop_spinner
    \/ Loop_continue
    \/ Loop_dispatch
    \/ Loop_draw
    \/ Loop_spinner_state
    \/ Loop_quit
    \/ Main_match
    \/ Main_return
    \/ Panic_hook
    \/ Panic_unwind
    \/ Ticker_fire
    \/ Spinner_fire

SpecTicker == InitTicker /\ [][NextTicker]_vars

\* ----------------------------------------------------------------- claims
Range(q) == { q[i] : i \in 1..Len(q) }
Count(q, x) == Cardinality({ i \in 1..Len(q) : q[i] = x })

\* the main thread is in an iteration after its dispatch step was taken
PastDispatch == pc \in {"draw", "spinner_state", "quit_check", "ret_err", "panic", "unwind"}

\* C1: in every session the first iteration of the loop does not call
\* select_event: its event is the synthesized Notify, it calls app.update()
\* and nothing else, and before that update no value was received from an
\* endpoint and neither app.event nor app.update_async was called; an
\* iteration that starts with select_event comes only after an update.
C1_FirstIterationForcedUpdate ==
    /\ (InLoop /\ loc.first_update) =>
            /\ pc = "loop" /\ iter = <<>> /\ calls = NoCalls
            /\ loc.index = -1 /\ loc.event = NoEvent
    /\ (iter # <<>> /\ iter[1] = "first_update") =>
            /\ loc.event = Notify /\ loc.index = -1
            /\ Len(iter) >= 2 => iter[2] = "app.update"
            /\ calls["app.update"] = Count(iter, "app.update")
            /\ calls["app.update"] <= 1
            /\ calls["app.event"] = 0 /\ calls["app.update_async"] = 0
    /\ (iter # <<>> /\ iter[1] = "select_event") => calls["app.update"] >= 1
    /\ (calls["app.update"] = 0) =>
            /\ calls["app.event"] = 0 /\ calls["app.update_async"] = 0
            /\ loc.index = -1

\* C1 witness: the forced update of a re-targeted session has been made while
\* the input endpoint was already ready
C1_Witness ==
    /\ Session = 2 /\ pc = "draw"
    /\ iter = <<"first_update", "app.update">>
    /\ Len(input.chan) > 0

PassEntered == Range(iter) \cap {"draw", "clear"} # {}

\* the redraw pass ran to its end: draw, spinner.set_state, spinner.draw
PassComplete ==
    LET k == Len(iter)
    IN  /\ k >= 4
        /\ iter[k] = "spinner.draw"
        /\ iter[k - 1] \in {"set_state(true)", "set_state(false)"}
        /\ \/ iter[k - 2] = "draw"
           \/ iter[k - 2] = "log_error" /\ iter[k - 3] = "draw"

ClaimedTag(i) ==
    CASE i = 0 -> "InputEvent"
      [] i \in {1, 2} -> "AsyncEvent"
      [] i = 3 -> "Tick"
      [] i = 4 -> "Notify"
      [] i = 5 -> "SpinnerUpdate"

\* C4 as stated: the event select_event returns carries the tag of the
\* endpoint its value came from (input -> InputEvent, git -> AsyncEvent(Git),
\* app -> AsyncEvent(App), timer -> Tick, change-notifier -> Notify, animation
\* clock -> SpinnerUpdate), and no two endpoints produce the same tag.
C4_TaggedByOrigin ==
    (pc = "dispatch" /\ loc.index >= 0) =>
        /\ loc.event.tag = ClaimedTag(loc.index)
        /\ (loc.index = 1) => loc.event.v[1] = "Git"
        /\ (loc.index = 2) => loc.event.v[1] = "App"

\* C5: in every session exactly one of rx_ticker and rx_watcher is a live
\* channel, the one the Updater of main selects; the other is never(): it
\* holds no value and select_event never returns its index; and every
\* session of the process runs with the same Updater.
C5_OneUpdateSource ==
    /\ \A i \in 1..Len(sessions) :
            sessions[i].updater = UpdaterOf(cfg.notify_watcher)
    /\ InLoop =>
        LET u == sessions[Session].updater
        IN  /\ rx.ticker_kind \in {"tick", "never"}
            /\ rx.watcher_kind \in {"watcher", "never"}
            /\ (rx.ticker_kind = "tick") # (rx.watcher_kind = "watcher")
            /\ (u = "Ticker") = (rx.ticker_kind = "tick")
            /\ (u = "NotifyWatcher") = (rx.watcher_kind = "watcher")
            /\ (rx.ticker_kind = "never") => (rx.ticker = <<>> /\ loc.index # 3)
            /\ (rx.watcher_kind = "never") => (rx.watcher = <<>> /\ loc.index # 4)

\* C5 witness: the change-notifier yields a value in a re-targeted session
C5_Witness ==
    /\ Session = 2 /\ pc = "dispatch"
    /\ loc.index = 4
    /\ sessions[1].updater = "NotifyWatcher"

\* C6: a session that ends with OpenSubmodule(p) is followed by exactly one
\* new run_app call whose repo is p, with the theme and key configuration of
\* every earlier session and a newly constructed App; a session that ends
\* with any other quit state is the last one and main returns Ok; the
\* sessions run are one more than the re-targets honoured.
C6_RetargetStartsNewSession ==
    /\ \A i \in 2..Len(sessions) :
            /\ i - 1 <= Len(quits)
            /\ quits[i - 1] = OpenSubmodule(sessions[i].repo)
            /\ sessions[i].theme = sessions[1].theme
            /\ sessions[i].key_config = sessions[1].key_config
    /\ \A i, j \in 1..Len(sessions) :
            (i < j /\ sessions[j].app_id # 0) => sessions[i].app_id < sessions[j].app_id
    /\ (app # NoApp) =>
            /\ app.id = sessions[Session].app_id
            /\ app.repo = sessions[Session].repo
            /\ app.theme = sessions[1].theme
            /\ app.key_config = sessions[1].key_config
    /\ \A i \in 1..Len(quits) :
            IF quits[i].kind = "OpenSubmodule"
            THEN \/ i < Len(sessions)
                 \/ i = Len(sessions) /\ pc \in {"match", "run_app"}
            ELSE /\ i = Len(quits) /\ i = Len(sessions)
                 /\ pc \in {"match", "ret_ok", "done"}
                 /\ (pc = "done") => outcome = "ok"
    /\ Len(quits) <= Len(sessions)
    /\ (pc = "done" /\ Len(sessions) > 0) => Len(sessions) = Retargets + 1
    /\ (pc = "run_app") => Len(sessions) = Retargets

\* C6 witness: the process ended normally after a re-target to another
\* repository
C6_Witness ==
    /\ pc = "done" /\ outcome = "ok"
    /\ Len(sessions) = 2
    /\ sessions[2].repo # sessions[1].repo
    /\ sessions[2].app_id = 2

\* the values held by the five endpoints run_app creates
SessionChannelValues ==
    Range(rx.git) \cup Range(rx.app) \cup Range(rx.ticker)
        \cup Range(rx.watcher) \cup Range(rx.spinner)

C8_TeardownOnEveryExit ==
    (pc = "done" /\ term.touched) => shut.calls >= 1

\* C9: every execution of shutdown_terminal attempts both steps, whether the
\* first failed or not, a failure is logged, and the caller goes on: main
\* returns what it was returning.
C9_ShutdownBestEffort ==
    /\ shut.leave = shut.calls
    /\ shut.raw = shut.calls
    /\ shut.leave_failed <= shut.logged
    /\ shut.logged <= 2 * shut.calls
    /\ (term.raw /\ ~term.alt /\ shut.calls > 0) => shut.logged >= 1
    /\ (pc = "done" /\ guard.defer /\ outcome # "panic") => shut.calls >= 1
    /\ (pc = "done" /\ quits # <<>> /\ outcome # "panic"
            /\ quits[Len(quits)].kind # "OpenSubmodule") => outcome = "ok"

\* C9 witness: leaving the alternate screen failed, disabling raw mode was
\* still attempted and succeeded, and main returned Ok
C9_Witness ==
    /\ pc = "done" /\ outcome = "ok"
    /\ shut.calls = 1 /\ shut.leave_failed = 1 /\ shut.raw = 1
    /\ term.alt /\ ~term.raw

\* C10 as stated: the panic hook is installed exactly once, and before
\* setup_terminal changes any terminal mode.
C10_HookBeforeTerminal ==
    /\ guard.hook <= 1
    /\ term.touched => guard.hook = 1

\* C11: when the validation of the repository path, setup_terminal or the
\* initialisation of the thread pool fails, main returns the error: run_app
\* has not been called and is not called, no App was constructed, the failed
\* step is not taken again (the next step of main is its return with an
\* error), and a session exists only after all three steps succeeded.
C11_StartupFailureAborts ==
    /\ [](/\ (sessions # <<>>) =>
                /\ cfg.repo_path \in Locators
                /\ guard.defer /\ guard.pool /\ guard.hook = 1
          /\ (pc \in {"ret_err", "done"} /\ ~guard.pool) =>
                /\ sessions = <<>> /\ AppsCreated = 0 /\ app = NoApp
                /\ outcome \in {"running", "err"}
                /\ (pc = "done") => outcome = "err"
          /\ guard.hook <= 1)
    /\ [][(pc = "ret_err") =>
            /\ pc' = "done" /\ outcome' = "err"
            /\ sessions' = sessions /\ guard' = guard]_vars
    /\ [][(pc = "done") => UNCHANGED vars]_vars

\* C11 witness: the thread pool could not be built: main returned the error
\* after the deferred shutdown_terminal, and no session was started
C11_Witness ==
    /\ pc = "done" /\ outcome = "err"
    /\ guard.hook = 1 /\ guard.defer /\ ~guard.pool
    /\ shut.calls = 1
    /\ sessions = <<>>

\* the App handler called in this iteration returned an error
HandlerFailed == loc.result = "err"

\* C12: when app.event, app.update or app.update_async returns an error,
\* run_app returns it at once: the iteration does no redraw, the App is
\* dropped and no handler is called again, and the next step of main is its
\* return with an error, with no new session started.
C12_HandlerErrorFatal ==
    /\ [](HandlerFailed =>
            /\ pc = "ret_err"
            /\ iter[Len(iter)] \in {"app.event", "app.update", "app.update_async"}
            /\ ~PassEntered
            /\ Range(iter) \cap {"set_state(true)", "set_state(false)", "spinner.draw"} = {}
            /\ app = NoApp)
    /\ [][HandlerFailed =>
            /\ pc' = "done" /\ outcome' = "err"
            /\ sessions' = sessions /\ quits' = quits]_vars

\* C12 witness: app.event returned an error for a key press in a re-targeted
\* session
C12_Witness ==
    /\ pc = "ret_err" /\ HandlerFailed
    /\ Session = 2
    /\ iter = <<"select_event", "app.event">>

\* C13 as stated: a failure in a render pass never makes run_app return: an
\* iteration that entered its redraw pass does not end with the error return.
C13_RenderFailureSkipped ==
    (pc = "ret_err" /\ iter # <<>>) => ~PassEntered

\* the forced first update of the session has been dispatched
ForcedUpdateDone ==
    /\ ~loc.first_update
    /\ ~(pc = "dispatch" /\ loc.index = -1)

\* timer values received by select_event and not yet dispatched (0 or 1)
TimerInFlight == IF pc = "dispatch" /\ loc.index = 3 THEN 1 ELSE 0

\* C14 (under SpecTicker: Updater::Ticker, only the periodic timer and the
\* animation clock produce values): the timer holds at most one value, one
\* per elapsed interval; every timer value select_event receives is
\* dispatched as exactly one app.update() call; app.update() is called for the
\* forced first update and for timer values only and no other handler is
\* called; so in the first session the app.update() calls made are the forced
\* one plus one per elapsed interval, less the value still pending.
C14_OneUpdatePerInterval ==
    /\ calls["app.event"] = 0 /\ calls["app.update_async"] = 0
    /\ InLoop =>
        /\ rx.ticker_kind = "tick"
        /\ loc.index \in {-1, 3, 5}
        /\ Len(rx.ticker) + TimerInFlight <= 1
    /\ (loc.index = 3) =>
        /\ AppCallFor(loc.event) = "app.update"
        /\ (pc # "dispatch") => Count(iter, "app.update") = 1
    /\ ("app.update" \in Range(iter)) =>
        /\ Count(iter, "app.update") = 1
        /\ loc.index \in {-1, 3}
        /\ (loc.index = -1) = (iter[1] = "first_update")
    /\ (InLoop /\ Session = 1) =>
        calls["app.update"] + Len(rx.ticker) + TimerInFlight
            = produced + (IF ForcedUpdateDone THEN 1 ELSE 0)

\* C14 witness: two intervals have elapsed and the second timer value has
\* just been dispatched as the third app.update() call of the session
C14_Witness ==
    /\ Session = 1 /\ pc = "draw"
    /\ loc.index = 3
    /\ produced = 2
    /\ calls["app.update"] = 3
    /\ rx.ticker = <<>>

\* C15 as stated: during every session the window title carries the
\* abbreviated path of the repository of that session.
C15_TitleFollowsSession ==
    InLoop => term.title = TitlePath(sessions[Session].repo)

\* the calls an iteration makes up to and including its dispatch
DispatchNames ==
    {"first_update", "select_event", "hide_cursor", "unreachable",
     "app.event", "app.update", "app.update_async"}

\* the calls of the current iteration that follow its dispatch
PassOf(q) ==
    LET k == Cardinality({ i \in 1..Len(q) : q[i] \in DispatchNames })
    IN  SubSeq(q, k + 1, Len(q))

\* draw(terminal, &app) run to its end: clear exactly when requires_redraw()
\* returned true, then the drawing of the application
DrawnPasses ==
    { c \o d : c \in {<<>>, <<"requires_redraw", "clear">>},
               d \in {<<"draw">>, <<"draw", "log_error">>} }

\* the redraw pass run to its end
FullPasses ==
    { d \o <<st, "spinner.draw">> :
        d \in DrawnPasses, st \in {"set_state(true)", "set_state(false)"} }

C17_InputAlwaysForwarded ==
    (loc.event.tag = "InputEvent" /\ pc # "dispatch") =>
        /\ Count(iter, "app.event") = 1
        /\ Count(iter, "hide_cursor") = IF NeedsHideCursor(loc.event) THEN 1 ELSE 0

\* C17 amended: an InputEvent is forwarded to app.event exactly once, and to
\* no other handler; when it is State(Polling), terminal.hide_cursor() is
\* called first, and if that fails run_app returns the error and the event
\* is not forwarded; for every other input event hide_cursor is not called.
C17_InputForwardedOnce ==
    /\ (loc.event.tag = "InputEvent" /\ pc # "dispatch") =>
        LET polling == loc.event.v = "StatePolling"
            hide_failed == iter = <<"select_event", "hide_cursor">>
        IN  /\ loc.index = 0 /\ iter[1] = "select_event"
            /\ Count(iter, "hide_cursor") = IF polling THEN 1 ELSE 0
            /\ polling => iter[2] = "hide_cursor"
            /\ hide_failed => (polling /\ pc = "ret_err" /\ loc.result = "-")
            /\ Count(iter, "app.event") = IF hide_failed THEN 0 ELSE 1
            /\ ~hide_failed =>
                    /\ iter[IF polling THEN 3 ELSE 2] = "app.event"
                    /\ loc.result # "-"
                    /\ polling => term.cursor_hidden
            /\ Range(iter) \cap {"app.update", "app.update_async"} = {}
    /\ (Range(iter) \cap {"app.event", "hide_cursor"} # {}) =>
            loc.event.tag = "InputEvent"

\* C17 witness: State(Polling) was received, the cursor hidden and the event
\* forwarded
C17_Witness ==
    /\ pc = "draw"
    /\ loc.event = InputEventOf("StatePolling")
    /\ iter = <<"select_event", "hide_cursor", "app.event">>
    /\ term.cursor_hidden

C19_QuitEndsLoopAtOnce ==
    /\ []((pc = "quit_check") =>
            /\ ~IsSpinnerUpdate(loc.event)
            /\ PassOf(iter) \in FullPasses
            /\ app # NoApp)
    /\ []((pc = "match") =>
            /\ app = NoApp
            /\ Len(quits) = Session
            /\ quits[Len(quits)].kind \in {"Close", "OpenSubmodule"})
    /\ [][(quits' # quits) =>
            /\ pc = "quit_check" /\ pc' = "match"
            /\ Len(quits') = Len(quits) + 1
            /\ SubSeq(quits', 1, Len(quits)) = quits
            /\ calls' = calls /\ input' = input /\ rx' = rx]_vars
    /\ [][(pc = "quit_check") =>
            \/ pc' = "match" /\ quits' # quits /\ app' = NoApp
            \/ pc' = "loop" /\ quits' = quits /\ app' = app /\ calls' = calls]_vars
    /\ [][(pc = "match") => (pc' \in {"run_app", "ret_ok"} /\ calls' = calls)]_vars

\* C19 witness: the first session ended with Close right after its forced
\* update, while a key press was waiting on the input endpoint
C19_Witness ==
    /\ pc = "match" /\ Session = 1
    /\ quits = <<Close>>
    /\ calls["app.update"] = 1 /\ calls["app.event"] = 0
    /\ Len(input.chan) = 1

\* a value is queued on the input channel
InputWaiting == input.chan # <<>>

\* the value received from the input endpoint has been passed to app.event,
\* or the main thread is not in the loop of a session (the session quit or
\* failed, or none is running)
InputServedOrSessionOver ==
    \/ loc.index = 0 /\ "app.event" \in Range(iter)
    \/ ~InLoop

\* C20 as stated (under FairSpec, where select_event's choice of the input
\* endpoint is weakly fair): every value queued on the input channel is
\* eventually received by select_event and passed to app.event, unless the
\* session quits or fails.
C20_InputNotStarvedWeak == InputWaiting ~> InputServedOrSessionOver

\* C20 amended: if select_event's choice of the input endpoint is strongly
\* fair (an endpoint that is ready at infinitely many calls is chosen at
\* infinitely many), every value queued on the input channel is eventually
\* received by select_event and passed to app.event, unless the session
\* quits or fails, although the animation clock keeps becoming ready.
C20_InputNotStarvedStrong ==
    SF_vars(SelectFrom(0)) => (InputWaiting ~> InputServedOrSessionOver)

\* C20 witness: a key press received while the animation clock was ready too
\* has been passed to app.event
C20_Witness ==
    /\ pc = "draw"
    /\ loc.index = 0
    /\ iter = <<"select_event", "app.event">>
    /\ Len(rx.spinner) = 1

====
